---- MODULE Spec2Model ----
(***************************************************************************)
(* Model of the EANSearch client (src/src/lib.rs): one client handle, the  *)
(* ten public operations, the two dispatchers api_call and api_call_list,  *)
(* and the classification of a response body by each operation.            *)
(*                                                                         *)
(* A call is split where the code blocks on the network: the operation's   *)
(* action issues the GET, and a second action receives the response and    *)
(* runs the rest of the handler (credit cache update, retry decision,      *)
(* body classification).  The service is the environment: it picks the     *)
(* status, the x-credits-remaining header and the body of each response,   *)
(* or the GET fails in transport.                                          *)
(*                                                                         *)
(* JSON bodies are modelled structurally (null, array of objects, object   *)
(* with an optional productlist, text that is not JSON) and the serde      *)
(* parsers as operators over that structure: a struct parses from an       *)
(* object that has all its fields (unknown fields are ignored), and the    *)
(* string-encoded numbers are parsed digit by digit.                       *)
(*                                                                         *)
(* Wire contract assumed of the service: the x-credits-remaining header,   *)
(* when present, is a decimal integer that fits i64, so the two unwraps    *)
(* of the header parse (lib.rs:173, 183) do not fail.                      *)
(***************************************************************************)
EXTENDS Integers, Sequences, FiniteSets, TLC

VARIABLES
    remaining,    \* EANSearch.remaining, the cached credit count
    pc,           \* "idle", "waiting" (a GET is in flight), "done", "panicked"
    op,           \* the public operation being executed
    url,          \* the op= parameter of the URL of the last GET
    tries,        \* api_call_list's parameter tries
    requests,     \* number of GETs issued by the current call
    resp,         \* the last response received by the current call
    result,       \* what the current call gave its caller
    parses,       \* the shapes the current call tried on the body, in order
    calls,        \* number of operations called on the handle
    responses,    \* number of responses the current call received
    received,     \* the handle has received a response since construction
    lastCredits   \* credit count the service put in its last response

vars == <<remaining, pc, op, url, tries, requests, resp, result, parses,
          calls, responses, received, lastCredits>>

----------------------------------------------------------------------------
(* Bounds of the model *)

\* number of public operations called on the handle in one behaviour
MaxCalls == 2
\* longest top-level JSON array the service sends
MaxArrayLen == 2
\* longest productlist the service sends
MaxListLen == 2

----------------------------------------------------------------------------
(* Program constants *)

MAX_API_TRIES == 3

\* the "unknown" value of the credit cache
UNKNOWN_CREDITS == -1

NOT_FOUND == "Barcode not found"
UNDEFINED_API_ERROR == "Undefined API error"

----------------------------------------------------------------------------
(* Decimal strings: u64::to_string and DisplayFromStr *)

Digits == <<"0", "1", "2", "3", "4", "5", "6", "7", "8", "9">>

IsDigit(c) == \E i \in 1..10 : Digits[i] = c

DigitVal(c) == (CHOOSE i \in 1..10 : Digits[i] = c) - 1

\* str::parse::<u64>: Err on the empty string or on any non-digit
RECURSIVE ParseDigits(_, _)
ParseDigits(s, acc) ==
    IF s = <<>> THEN acc
    ELSE ParseDigits(Tail(s), acc * 10 + DigitVal(Head(s)))

IsNumeric(s) == Len(s) >= 1 /\ \A i \in 1..Len(s) : IsDigit(s[i])

from_str(s) == ParseDigits(s, 0)

\* u64::to_string, as the service renders a number on the wire
RECURSIVE to_string(_)
to_string(n) ==
    IF n < 10 THEN <<Digits[n + 1]>>
    ELSE to_string(n \div 10) \o <<Digits[(n % 10) + 1]>>

\* i64::to_string and str::parse::<i64>: an optional minus sign
i64_to_string(n) == IF n < 0 THEN <<"-">> \o to_string(0 - n) ELSE to_string(n)

parse_i64(s) ==
    IF Len(s) >= 1 /\ Head(s) = "-" THEN 0 - from_str(Tail(s)) ELSE from_str(s)

----------------------------------------------------------------------------
(* Records of the data model *)

\* struct Product values the service can hold
Products ==
    { [ean |-> 50, name |-> "Thriller", category_id |-> 45,
       category_name |-> "Music", issuing_country |-> "UK"],
      [ean |-> 7, name |-> "Linux", category_id |-> 15,
       category_name |-> "Books", issuing_country |-> "US"] }

\* struct ExtProduct values the service can hold
ExtProducts ==
    { [ean |-> 50, name |-> "Thriller", category_id |-> 45,
       category_name |-> "Music", google_category_id |-> 855,
       issuing_country |-> "UK"],
      [ean |-> 7, name |-> "Linux", category_id |-> 15,
       category_name |-> "Books", google_category_id |-> 784,
       issuing_country |-> "US"] }

\* JSON object of a Product as the service writes it (camelCase keys,
\* numbers as decimal strings)
WireProduct(p) ==
    [ean |-> to_string(p.ean), name |-> p.name,
     categoryId |-> to_string(p.category_id),
     categoryName |-> p.category_name,
     issuingCountry |-> p.issuing_country]

WireExtProduct(p) ==
    [ean |-> to_string(p.ean), name |-> p.name,
     categoryId |-> to_string(p.category_id),
     categoryName |-> p.category_name,
     googleCategoryId |-> to_string(p.google_category_id),
     issuingCountry |-> p.issuing_country]

\* the service's error object
WireError(t) == [error |-> t]

ErrorTexts == {NOT_FOUND, "Invalid token"}

----------------------------------------------------------------------------
(* JSON bodies as the service sends them *)

\* 'null'
JNull == [kind |-> "null"]
\* a JSON array of objects
JArray(s) == [kind |-> "array", elems |-> s]
\* a JSON object; productlist is the value json["productlist"] indexes to
\* (Value::Null when the key is missing or null)
JObject(pl) == [kind |-> "object", productlist |-> pl]
\* text that is not JSON (an HTML error page, an empty body)
NotJson == [kind |-> "text"]
\* resp.text() returns Err: the body could not be read
TextError == [kind |-> "ioerror"]
\* the body of a response the code never reads (a retried 429)
Unread == [kind |-> "unread"]

AProduct == CHOOSE p \in Products : p.ean = 50
BProduct == CHOOSE p \in Products : p.ean = 7
AnExtProduct == CHOOSE p \in ExtProducts : p.ean = 50

\* the objects a top-level array can hold
Elems ==
    { WireError(t) : t \in ErrorTexts }
    \cup { WireProduct(AProduct), WireExtProduct(AnExtProduct) }
    \cup { \* a product record that also carries an error field
           [ean |-> to_string(AnExtProduct.ean), name |-> AnExtProduct.name,
            categoryId |-> to_string(AnExtProduct.category_id),
            categoryName |-> AnExtProduct.category_name,
            googleCategoryId |-> to_string(AnExtProduct.google_category_id),
            issuingCountry |-> AnExtProduct.issuing_country,
            error |-> "Invalid token"] }
    \cup { [ean |-> to_string(50), valid |-> v] : v \in {"1", "0"} }
    \cup { [ean |-> to_string(50), barcode |-> b] : b \in {"QUJD", "?"} }

\* the objects a productlist can hold: product records, and a record
\* whose ean is not a number
ListElems ==
    { WireProduct(p) : p \in Products }
    \cup { [WireProduct(AProduct) EXCEPT !.ean = <<"x">>] }

RECURSIVE SeqsUpTo(_, _)
SeqsUpTo(S, n) ==
    IF n = 0 THEN {<<>>}
    ELSE LET shorter == SeqsUpTo(S, n - 1)
         IN  shorter \cup { Append(s, e) : s \in {t \in shorter : Len(t) = n - 1}, e \in S }

Arrays == { JArray(s) : s \in SeqsUpTo(Elems, MaxArrayLen) }

ProductLists == { JArray(s) : s \in SeqsUpTo(ListElems, MaxListLen) }

Bodies ==
    {JNull, NotJson, TextError} \cup Arrays
    \cup { JObject(pl) : pl \in {JNull} \cup ProductLists }

\* HTTP status codes of a response
Statuses == {200, 429, 500}

\* the credit count the service reports: none (no header), or an integer
Credits == {-2, 7}
OptCredits == {<<>>} \cup { <<c>> : c \in Credits }

\* x-credits-remaining as it is on the wire: absent, or a decimal string
Header(c) == IF c = <<>> THEN <<>> ELSE <<i64_to_string(c[1])>>

----------------------------------------------------------------------------
(* serde: which JSON objects deserialize into which struct *)

HasFields(o, fs) == fs \subseteq DOMAIN o

\* struct Product (lib.rs:22-30)
IsProduct(o) ==
    /\ HasFields(o, {"ean", "name", "categoryId", "categoryName", "issuingCountry"})
    /\ IsNumeric(o.ean)
    /\ IsNumeric(o.categoryId)

ToProduct(o) ==
    [ean |-> from_str(o.ean), name |-> o.name,
     category_id |-> from_str(o.categoryId),
     category_name |-> o.categoryName,
     issuing_country |-> o.issuingCountry]

\* struct ExtProduct (lib.rs:42-52)
IsExtProduct(o) ==
    /\ HasFields(o, {"ean", "name", "categoryId", "categoryName",
                     "googleCategoryId", "issuingCountry"})
    /\ IsNumeric(o.ean)
    /\ IsNumeric(o.categoryId)
    /\ IsNumeric(o.googleCategoryId)

ToExtProduct(o) ==
    [ean |-> from_str(o.ean), name |-> o.name,
     category_id |-> from_str(o.categoryId),
     category_name |-> o.categoryName,
     google_category_id |-> from_str(o.googleCategoryId),
     issuing_country |-> o.issuingCountry]

\* struct ProductCountry (lib.rs:63-67)
IsProductCountry(o) ==
    HasFields(o, {"ean", "issuingCountry"}) /\ IsNumeric(o.ean)

\* struct VerifyChecksum (lib.rs:72-76)
IsVerifyChecksum(o) ==
    HasFields(o, {"ean", "valid"}) /\ IsNumeric(o.ean)

\* struct BarcodeImage (lib.rs:81-85)
IsBarcodeImage(o) ==
    HasFields(o, {"ean", "barcode"}) /\ IsNumeric(o.ean)

\* struct APIError (lib.rs:99-101)
IsAPIError(o) == HasFields(o, {"error"})

\* JSON object o deserializes into struct T
Deserializes(T, o) ==
    CASE T = "Product" -> IsProduct(o)
      [] T = "ExtProduct" -> IsExtProduct(o)
      [] T = "ProductCountry" -> IsProductCountry(o)
      [] T = "VerifyChecksum" -> IsVerifyChecksum(o)
      [] T = "BarcodeImage" -> IsBarcodeImage(o)
      [] T = "APIError" -> IsAPIError(o)

\* serde_json::from_str::<Vec<T>>(body) is Ok
ParsesVec(body, T) ==
    /\ body.kind = "array"
    /\ \A i \in 1..Len(body.elems) : Deserializes(T, body.elems[i])

\* serde_json::from_str::<Option<Vec<T>>>(body) is Ok: null is None
ParsesOptionVec(body, T) ==
    body.kind = "null" \/ ParsesVec(body, T)

\* serde_json::from_str::<Value>(body) is Ok
ParsesValue(body) == body.kind \in {"null", "array", "object"}

\* general_purpose::STANDARD_NO_PAD.decode
Base64Valid(s) == s = "QUJD"
Base64Decode(s) == <<65, 66, 67>>

----------------------------------------------------------------------------
(* What a call gives its caller *)

\* Ok(Some(p)) is OkOption(<<p>>), Ok(None) is OkOption(<<>>)
OkOption(o) == [kind |-> "Ok", option |-> o]
OkList(l) == [kind |-> "Ok", list |-> l]
OkString(t) == [kind |-> "Ok", string |-> t]
OkBool(b) == [kind |-> "Ok", bool |-> b]
OkBytes(b) == [kind |-> "Ok", bytes |-> b]
\* credits_remaining returns a bare i64
Value(n) == [kind |-> "value", credits |-> n]
\* Err(msg.into()); from is where the message comes from: "api" the
\* service's error text, "client" the literal of the client, "serde_json"
\* and "reqwest" an error of that library passed on by '?'
Err(m, f) == [kind |-> "Err", msg |-> m, from |-> f]
\* the thread panics at this line of lib.rs
Panic(l) == [kind |-> "panic", line |-> l]
NoResult == [kind |-> "none"]
NoResp == [status |-> 0, credits |-> <<>>, body |-> Unread]

\* one parse attempt: which shape was tried, and whether it parsed
Tried(shape, ok) == [shape |-> shape, ok |-> ok]

Outcome(r, ps) == [result |-> r, parses |-> ps]

----------------------------------------------------------------------------
(* Classification of the body by each operation *)

\* barcode_lookup without the special case of "Barcode not found"
barcode_lookup_body_no_sentinel(body) ==
    IF ParsesOptionVec(body, "ExtProduct")
    THEN Outcome(IF body.kind = "null" \/ body.elems = <<>>
                 THEN Panic(129)
                 ELSE OkOption(<<ToExtProduct(body.elems[1])>>),
                 <<Tried("success", TRUE)>>)
    ELSE IF ParsesVec(body, "APIError")
    THEN Outcome(IF body.elems = <<>> THEN Panic(134)
                 ELSE Err(body.elems[1].error, "api"),
                 <<Tried("success", FALSE), Tried("error", TRUE)>>)
    ELSE Outcome(Err(UNDEFINED_API_ERROR, "client"),
                 <<Tried("success", FALSE), Tried("error", FALSE)>>)

\* barcode_lookup with the two parses in the opposite order
barcode_lookup_body_error_first(body) ==
    IF ParsesVec(body, "APIError")
    THEN Outcome(IF body.elems = <<>> THEN Panic(134)
                 ELSE IF body.elems[1].error = NOT_FOUND THEN OkOption(<<>>)
                 ELSE Err(body.elems[1].error, "api"),
                 <<Tried("error", TRUE)>>)
    ELSE IF ParsesOptionVec(body, "ExtProduct")
    THEN Outcome(IF body.kind = "null" \/ body.elems = <<>>
                 THEN Panic(129)
                 ELSE OkOption(<<ToExtProduct(body.elems[1])>>),
                 <<Tried("error", FALSE), Tried("success", TRUE)>>)
    ELSE Outcome(Err(UNDEFINED_API_ERROR, "client"),
                 <<Tried("error", FALSE), Tried("success", FALSE)>>)

\* lib.rs:127-143
barcode_lookup_body(body) ==
    IF ParsesOptionVec(body, "ExtProduct")
    THEN Outcome(IF body.kind = "null" \/ body.elems = <<>>
                 THEN Panic(129)
                 ELSE OkOption(<<ToExtProduct(body.elems[1])>>),
                 <<Tried("success", TRUE)>>)
    ELSE IF ParsesVec(body, "APIError")
    THEN Outcome(IF body.elems = <<>> THEN Panic(134)
                 ELSE IF body.elems[1].error = NOT_FOUND THEN OkOption(<<>>)
                 ELSE Err(body.elems[1].error, "api"),
                 <<Tried("success", FALSE), Tried("error", TRUE)>>)
    ELSE Outcome(Err(UNDEFINED_API_ERROR, "client"),
                 <<Tried("success", FALSE), Tried("error", FALSE)>>)

\* lib.rs:151-167
isbn_lookup_body(body) ==
    IF ParsesOptionVec(body, "ExtProduct")
    THEN Outcome(IF body.kind = "null" \/ body.elems = <<>>
                 THEN Panic(153)
                 ELSE OkOption(<<ToExtProduct(body.elems[1])>>),
                 <<Tried("success", TRUE)>>)
    ELSE IF ParsesVec(body, "APIError")
    THEN Outcome(IF body.elems = <<>> THEN Panic(158)
                 ELSE IF body.elems[1].error = NOT_FOUND THEN OkOption(<<>>)
                 ELSE Err(body.elems[1].error, "api"),
                 <<Tried("success", FALSE), Tried("error", TRUE)>>)
    ELSE Outcome(Err(UNDEFINED_API_ERROR, "client"),
                 <<Tried("success", FALSE), Tried("error", FALSE)>>)

\* the Err(_e) arm shared by the scalar and image operations
\* (lib.rs:250-256, 268-274, 287-293)
error_fallback(body, line) ==
    IF ParsesVec(body, "APIError")
    THEN Outcome(IF body.elems = <<>> THEN Panic(line)
                 ELSE Err(body.elems[1].error, "api"),
                 <<Tried("success", FALSE), Tried("error", TRUE)>>)
    ELSE Outcome(Err(UNDEFINED_API_ERROR, "client"),
                 <<Tried("success", FALSE), Tried("error", FALSE)>>)

\* lib.rs:247-257
issuing_country_body(body) ==
    IF ParsesVec(body, "ProductCountry")
    THEN Outcome(IF body.elems = <<>> THEN Panic(249)
                 ELSE OkString(body.elems[1].issuingCountry),
                 <<Tried("success", TRUE)>>)
    ELSE error_fallback(body, 253)

\* lib.rs:265-275
verify_checksum_body(body) ==
    IF ParsesVec(body, "VerifyChecksum")
    THEN Outcome(IF body.elems = <<>> THEN Panic(267)
                 ELSE OkBool(body.elems[1].valid = "1"),
                 <<Tried("success", TRUE)>>)
    ELSE error_fallback(body, 271)

\* lib.rs:284-294
barcode_image_body(body) ==
    IF ParsesVec(body, "BarcodeImage")
    THEN Outcome(IF body.elems = <<>> \/ ~Base64Valid(body.elems[1].barcode)
                 THEN Panic(286)
                 ELSE OkBytes(Base64Decode(body.elems[1].barcode)),
                 <<Tried("success", TRUE)>>)
    ELSE error_fallback(body, 290)

\* json["productlist"]: Value::Null unless json is an object with the key
productlist_of(body) ==
    IF body.kind = "object" THEN body.productlist ELSE JNull

\* product_list with an empty list reported as a failure
product_list_empty_is_error(pl) ==
    IF ParsesVec(pl, "Product") /\ pl.elems # <<>>
    THEN OkList([i \in 1..Len(pl.elems) |-> ToProduct(pl.elems[i])])
    ELSE Err("serde_json::Error", "serde_json")

\* lib.rs:199: the productlist, re-serialized, parsed as Vec<Product>
product_list(pl) ==
    IF ParsesVec(pl, "Product")
    THEN OkList([i \in 1..Len(pl.elems) |-> ToProduct(pl.elems[i])])
    ELSE Err("serde_json::Error", "serde_json")

\* api_call_list with the lookups' special case of "Barcode not found"
api_call_list_body_not_found(body) ==
    IF body = TextError
    THEN Outcome(Err("reqwest::Error", "reqwest"), <<>>)
    ELSE IF ParsesVec(body, "APIError")
    THEN Outcome(IF body.elems = <<>> THEN Panic(194)
                 ELSE IF body.elems[1].error = NOT_FOUND THEN OkList(<<>>)
                 ELSE Err(body.elems[1].error, "api"),
                 <<Tried("error", TRUE)>>)
    ELSE IF ~ParsesValue(body)
    THEN Outcome(Err("serde_json::Error", "serde_json"),
                 <<Tried("error", FALSE), Tried("success", FALSE)>>)
    ELSE LET r == product_list(productlist_of(body))
         IN  Outcome(r, <<Tried("error", FALSE), Tried("success", r.kind = "Ok")>>)

\* lib.rs:191-200
api_call_list_body(body) ==
    IF body = TextError
    THEN Outcome(Err("reqwest::Error", "reqwest"), <<>>)
    ELSE IF ParsesVec(body, "APIError")
    THEN Outcome(IF body.elems = <<>> THEN Panic(194)
                 ELSE Err(body.elems[1].error, "api"),
                 <<Tried("error", TRUE)>>)
    ELSE IF ~ParsesValue(body)
    THEN Outcome(Err("serde_json::Error", "serde_json"),
                 <<Tried("error", FALSE), Tried("success", FALSE)>>)
    ELSE LET r == product_list(productlist_of(body))
         IN  Outcome(r, <<Tried("error", FALSE), Tried("success", r.kind = "Ok")>>)

\* retry that gives up one attempt earlier
retry_one_less(status, t) == status = 429 /\ t < MAX_API_TRIES - 1

\* lib.rs:187: is this response retried?
retry(status, t) == status = 429 /\ t <= MAX_API_TRIES

\* lib.rs:172-176: the credit cache after a response with this header
api_call_remaining(header) ==
    IF header # <<>> THEN parse_i64(header[1]) ELSE UNKNOWN_CREDITS

\* api_call_list without the else branch: the cache keeps its old value
api_call_list_remaining_keep(header) ==
    IF header # <<>> THEN parse_i64(header[1]) ELSE remaining

\* lib.rs:182-186
api_call_list_remaining(header) ==
    IF header # <<>> THEN parse_i64(header[1]) ELSE UNKNOWN_CREDITS

\* credits_remaining that tests for the sentinel only
credits_unknown_sentinel_only(r) == r = UNKNOWN_CREDITS

\* lib.rs:299
credits_unknown(r) == r < 0

----------------------------------------------------------------------------
(* The state machine *)

LookupOps == {"barcode_lookup", "isbn_lookup"}
ListOps == {"barcode_prefix_search", "product_search",
            "similar_product_search", "category_search"}
ScalarOps == {"issuing_country", "verify_checksum", "barcode_image"}
ResultOps == LookupOps \cup ListOps \cup ScalarOps

\* EANSearch::new (lib.rs:114-119): no request, the cache is unknown
Init ==
    /\ remaining = UNKNOWN_CREDITS
    /\ pc = "idle"
    /\ op = "none"
    /\ url = "none"
    /\ tries = 0
    /\ requests = 0
    /\ resp = NoResp
    /\ result = NoResult
    /\ parses = <<>>
    /\ calls = 0
    /\ responses = 0
    /\ received = FALSE
    /\ lastCredits = <<>>

\* the caller calls operation o, which builds its URL and issues the GET
\* (self.client.get(url).send(), lib.rs:171 and 181)
Get(o, u) ==
    /\ pc \in {"idle", "done"}
    /\ calls < MaxCalls
    /\ calls' = calls + 1
    /\ op' = o
    /\ url' = u
    /\ tries' = 1
    /\ requests' = 1
    /\ resp' = NoResp
    /\ result' = NoResult
    /\ parses' = <<>>
    /\ pc' = "waiting"
    /\ responses' = 0
    /\ UNCHANGED <<remaining, received, lastCredits>>

\* lib.rs:122-126
barcode_lookup == Get("barcode_lookup", "barcode-lookup")

\* lib.rs:147-150
isbn_lookup == Get("isbn_lookup", "barcode-lookup")

\* lib.rs:204-209
barcode_prefix_search == Get("barcode_prefix_search", "barcode-prefix-search")

\* lib.rs:213-218
product_search == Get("product_search", "product-search")

\* lib.rs:222-227
similar_product_search == Get("similar_product_search", "similar-product-search")

\* lib.rs:231-239
category_search == Get("category_search", "category-search")

\* lib.rs:243-246
issuing_country == Get("issuing_country", "issuing-country")

\* lib.rs:261-264
verify_checksum == Get("verify_checksum", "verify-checksum")

\* lib.rs:279-283
barcode_image == Get("barcode_image", "barcode-image")

\* lib.rs:298-304: a request only when the cache is unknown
credits_remaining ==
    IF credits_unknown(remaining)
    THEN Get("credits_remaining", "account-status")
    ELSE /\ pc \in {"idle", "done"}
         /\ calls < MaxCalls
         /\ calls' = calls + 1
         /\ op' = "credits_remaining"
         /\ tries' = 1
         /\ requests' = 0
         /\ resp' = NoResp
         /\ result' = Value(remaining)
         /\ parses' = <<>>
         /\ pc' = "done"
         /\ responses' = 0
         /\ UNCHANGED <<remaining, url, received, lastCredits>>

\* what the operation does with the Result<String> of api_call: unwrap it
\* (a panic when resp.text() failed) and classify the body
after_api_call(o, body, line, rem) ==
    IF body = TextError THEN Outcome(Panic(line), <<>>)
    ELSE CASE o = "barcode_lookup" -> barcode_lookup_body(body)
           [] o = "isbn_lookup" -> isbn_lookup_body(body)
           [] o = "issuing_country" -> issuing_country_body(body)
           [] o = "verify_checksum" -> verify_checksum_body(body)
           [] o = "barcode_image" -> barcode_image_body(body)
           [] o = "credits_remaining" -> Outcome(Value(rem), <<>>)

\* the line of the operation that unwraps api_call's result
unwrap_line(o) ==
    CASE o = "barcode_lookup" -> 126
      [] o = "isbn_lookup" -> 150
      [] o = "issuing_country" -> 246
      [] o = "verify_checksum" -> 264
      [] o = "barcode_image" -> 283
      [] o = "credits_remaining" -> 301

\* lib.rs:170-178 and the rest of the calling operation: the response of
\* a single-request operation arrives
api_call ==
    /\ pc = "waiting"
    /\ op \notin ListOps
    /\ \E st \in Statuses, c \in OptCredits, b \in Bodies :
         LET rem == api_call_remaining(Header(c))
             out == after_api_call(op, b, unwrap_line(op), rem)
         IN  /\ resp' = [status |-> st, credits |-> Header(c), body |-> b]
             /\ remaining' = rem
             /\ lastCredits' = c
             /\ result' = out.result
             /\ parses' = out.parses
             /\ pc' = IF out.result.kind = "panic" THEN "panicked" ELSE "done"
    /\ responses' = responses + 1
    /\ received' = TRUE
    /\ UNCHANGED <<op, url, tries, requests, calls>>

\* lib.rs:180-201: a response of a list-producing operation arrives; a
\* 429 within the tries is answered by the next GET (the recursive call)
api_call_list ==
    /\ pc = "waiting"
    /\ op \in ListOps
    /\ \E st \in Statuses, c \in OptCredits, b \in Bodies :
         /\ remaining' = api_call_list_remaining(Header(c))
         /\ lastCredits' = c
         /\ IF retry(st, tries)
            THEN /\ b = NotJson    \* the body of a retried response is never read
                 /\ resp' = [status |-> st, credits |-> Header(c), body |-> Unread]
                 /\ tries' = tries + 1
                 /\ requests' = requests + 1
                 /\ UNCHANGED <<pc, result, parses>>
            ELSE LET out == api_call_list_body(b)
                 IN  /\ resp' = [status |-> st, credits |-> Header(c), body |-> b]
                     /\ result' = out.result
                     /\ parses' = out.parses
                     /\ pc' = IF out.result.kind = "panic" THEN "panicked" ELSE "done"
                     /\ UNCHANGED <<tries, requests>>
    /\ responses' = responses + 1
    /\ received' = TRUE
    /\ UNCHANGED <<op, url, calls>>

\* send() returns Err (no connection, DNS, TLS): the unwrap at lib.rs:171
\* or 181 panics
send_failed ==
    /\ pc = "waiting"
    /\ result' = Panic(IF op \in ListOps THEN 181 ELSE 171)
    /\ pc' = "panicked"
    /\ UNCHANGED <<remaining, op, url, tries, requests, resp, parses, calls,
                   responses, received, lastCredits>>

Next ==
    \/ barcode_lookup
    \/ isbn_lookup
    \/ barcode_prefix_search
    \/ product_search
    \/ similar_product_search
    \/ category_search
    \/ issuing_country
    \/ verify_checksum
    \/ barcode_image
    \/ credits_remaining
    \/ api_call
    \/ api_call_list
    \/ send_failed

Spec == Init /\ [][Next]_vars

TypeOK ==
    /\ remaining \in Int
    /\ pc \in {"idle", "waiting", "done", "panicked"}
    /\ tries \in 0..(MAX_API_TRIES + 1)
    /\ calls \in 0..MaxCalls

----------------------------------------------------------------------------
(* Vocabulary of the properties *)

\* the current call is over: it returned or it panicked
Finished == pc \in {"done", "panicked"}

\* the service's error shape: an array of objects that hold an error text
\* and nothing else, at least one
IsServiceError(b) ==
    /\ b.kind = "array"
    /\ Len(b.elems) >= 1
    /\ \A i \in 1..Len(b.elems) : DOMAIN b.elems[i] = {"error"}

\* the lists of product records the service can send in a productlist
ProductSeqs == SeqsUpTo(Products, MaxListLen)

\* the list-query success body that holds exactly the records ps
ListBody(ps) == JObject(JArray([i \in 1..Len(ps) |-> WireProduct(ps[i])]))

\* the body fits the success shape of operation o
FitsSuccess(o, b) ==
    CASE o \in LookupOps -> ParsesOptionVec(b, "ExtProduct")
      [] o \in ListOps -> ParsesVec(productlist_of(b), "Product")
      [] o = "issuing_country" -> ParsesVec(b, "ProductCountry")
      [] o = "verify_checksum" -> ParsesVec(b, "VerifyChecksum")
      [] o = "barcode_image" -> ParsesVec(b, "BarcodeImage")
      [] OTHER -> FALSE

\* the call reported an application error: a failure whose message is an
\* error text of the body
AppError == result.kind = "Err" /\ result.from = "api"

\* in the parse log, shape a was tried first, and shape b only after a
\* had failed
TriedInOrder(a, b) ==
    /\ parses # <<>> => parses[1].shape = a
    /\ \A i \in 1..Len(parses) :
         parses[i].shape = b =>
           \E j \in 1..(i - 1) : parses[j].shape = a /\ ~parses[j].ok

----------------------------------------------------------------------------
(* C1 *)

\* C1: barcode_lookup and isbn_lookup, given a body that is not the
\* product-list success shape and is an array of error objects whose first
\* error text is exactly "Barcode not found", return Ok(None): not a
\* failure, not a product, not a panic.
C1_NotFoundIsNone ==
    ( /\ Finished
      /\ op \in LookupOps
      /\ ~ParsesOptionVec(resp.body, "ExtProduct")
      /\ ParsesVec(resp.body, "APIError")
      /\ resp.body.elems[1].error = NOT_FOUND )
    => (pc = "done" /\ result = OkOption(<<>>))

C1_Witness ==
    /\ op = "barcode_lookup"
    /\ pc = "done"
    /\ resp.body = JArray(<<WireError(NOT_FOUND)>>)
    /\ result = OkOption(<<>>)

----------------------------------------------------------------------------
(* C2 *)

\* C2: every operation that returns a Result, given a body in the
\* service's error shape with first error text t, returns the failure
\* whose message is exactly t, unless t is the not-found sentinel; the
\* list operations return that failure for the sentinel too.
C2_ErrorTextIsFailure ==
    ( /\ Finished
      /\ op \in ResultOps
      /\ IsServiceError(resp.body)
      /\ (op \in ListOps \/ resp.body.elems[1].error # NOT_FOUND) )
    => ( /\ pc = "done"
         /\ result.kind = "Err"
         /\ result.msg = resp.body.elems[1].error )

C2_Witness ==
    /\ op = "product_search"
    /\ pc = "done"
    /\ resp.body = JArray(<<WireError(NOT_FOUND)>>)
    /\ result.kind = "Err"
    /\ result.msg = NOT_FOUND

----------------------------------------------------------------------------
(* C3 *)

\* C3: no public operation panics, whatever the service answers and also
\* when the GET fails in transport: every call returns a value.
C3_NoPanic == pc # "panicked"

----------------------------------------------------------------------------
(* C4 *)

\* C4: in a list-producing call, a 429 on an attempt before the third is
\* followed by another GET, and a 200 response with a product list that
\* arrives after one or more 429s, on the third attempt at the latest,
\* is returned as Ok with exactly the records of that response.
C4_RetryThenSuccess ==
    [][ (pc = "waiting" /\ op \in ListOps /\ responses' = responses + 1) =>
          /\ (resp'.status = 429 /\ requests < MAX_API_TRIES)
               => (pc' = "waiting" /\ requests' = requests + 1)
          /\ \A ps \in ProductSeqs :
               ( /\ requests > 1
                 /\ requests <= MAX_API_TRIES
                 /\ resp'.status = 200
                 /\ resp'.body = ListBody(ps) )
               => (pc' = "done" /\ result' = OkList(ps)) ]_vars

C4_Witness ==
    /\ op = "barcode_prefix_search"
    /\ pc = "done"
    /\ requests = 3
    /\ resp.status = 200
    /\ resp.body = ListBody(<<BProduct, AProduct>>)
    /\ result = OkList(<<BProduct, AProduct>>)

----------------------------------------------------------------------------
(* C5 *)

\* C5: a list-producing call whose every attempt was answered with 429
\* stops and returns to its caller: when the last 429 has been classified
\* the call has returned a value.
C5_Persistent429Returns ==
    ( /\ Finished
      /\ op \in ListOps
      /\ resp.status = 429
      /\ resp.body # Unread )
    => pc = "done"

----------------------------------------------------------------------------
(* C6 *)

\* C6: one call of a list-producing operation issues at most
\* MAX_API_TRIES (3) GET requests.
C6_AtMostMaxTries == op \in ListOps => requests <= MAX_API_TRIES

----------------------------------------------------------------------------
(* C7 *)

\* C7 as stated: every operation tries the success shape first and the
\* error-object shape only after the success shape failed, and a body
\* that fits the success shape is never reported as an application error.
C7_SuccessShapeFirst ==
    /\ TriedInOrder("success", "error")
    /\ (Finished /\ FitsSuccess(op, resp.body)) => ~AppError

\* C7 amended: the single-record, scalar and image operations try the
\* success shape first and the error shape only after it failed; the
\* list-producing operations try the error shape first and the success
\* shape only after it failed; in every operation a body that fits the
\* success shape is never reported as an application error.
C7_ShapeOrder ==
    /\ op \notin ListOps => TriedInOrder("success", "error")
    /\ op \in ListOps => TriedInOrder("error", "success")
    /\ (Finished /\ FitsSuccess(op, resp.body)) => ~AppError

\* a lookup got a product record that also has an error field
C7_Witness ==
    /\ op = "barcode_lookup"
    /\ pc = "done"
    /\ resp.body.kind = "array"
    /\ Len(resp.body.elems) = 1
    /\ IsExtProduct(resp.body.elems[1])
    /\ IsAPIError(resp.body.elems[1])
    /\ result = OkOption(<<AnExtProduct>>)

----------------------------------------------------------------------------
(* C8 *)

\* C8: a list-producing call whose final response has a body with a
\* productlist of n well-formed product records returns Ok with exactly
\* those records in that order; for n = 0, Ok with the empty list.
C8_ListDecoded ==
    \A ps \in ProductSeqs :
      (Finished /\ op \in ListOps /\ resp.body = ListBody(ps))
      => (pc = "done" /\ result = OkList(ps))

C8_Witness ==
    /\ op = "product_search"
    /\ pc = "done"
    /\ resp.body = ListBody(<<>>)
    /\ result = OkList(<<>>)

----------------------------------------------------------------------------
(* C9 *)

\* the step in which the caller calls credits_remaining
CallsCreditsRemaining == op' = "credits_remaining" /\ calls' = calls + 1

\* C9 as stated: credits_remaining issues a request if and only if the
\* cache is at the unknown sentinel -1.
C9_RequestIffSentinel ==
    [][ CallsCreditsRemaining =>
          (requests' = 1 <=> remaining = UNKNOWN_CREDITS) ]_vars

\* C9 amended: credits_remaining issues a request if and only if the
\* cached credit count is negative (the sentinel -1 or any negative count
\* taken from a header), and then exactly one, an account-status query;
\* when the cache is not negative it issues no request, leaves the cache
\* unchanged and returns the cached value.
C9_RequestIffNegative ==
    /\ [][ CallsCreditsRemaining =>
             /\ requests' = 1 <=> remaining < 0
             /\ requests' = 1 => (url' = "account-status" /\ pc' = "waiting")
             /\ remaining >= 0 =>
                  /\ requests' = 0
                  /\ remaining' = remaining
                  /\ pc' = "done"
                  /\ result' = Value(remaining) ]_vars
    /\ [](op = "credits_remaining" => requests <= 1)
    /\ []((op = "credits_remaining" /\ pc = "done") => result = Value(remaining))

\* the cache holds a negative count other than the sentinel, and
\* credits_remaining has sent its query
C9_Witness ==
    /\ op = "credits_remaining"
    /\ pc = "waiting"
    /\ requests = 1
    /\ url = "account-status"
    /\ remaining = -2

----------------------------------------------------------------------------
(* C10 *)

\* C10: the cached credit count is the count of the most recent response
\* the handle received, retried 429 responses included, and -1 when that
\* response had no x-credits-remaining header or no response was received
\* since construction.
C10_CacheIsLastResponse ==
    remaining = IF ~received \/ lastCredits = <<>>
                THEN -1
                ELSE lastCredits[1]

\* a retried 429 carried a count and the next GET is in flight
C10_Witness ==
    /\ op \in ListOps
    /\ pc = "waiting"
    /\ requests = 2
    /\ resp.status = 429
    /\ lastCredits = <<7>>
    /\ remaining = 7

----------------------------------------------------------------------------
(* C11 *)

\* C11: every operation that returns a Result, the list-producing ones
\* included, given a body that was read and parses neither as the
\* operation's success shape nor as an array of error objects, returns
\* the failure whose message is "Undefined API error", never a success.
C11_UndefinedApiError ==
    ( /\ Finished
      /\ op \in ResultOps
      /\ resp.body.kind \in {"null", "array", "object", "text"}
      /\ ~FitsSuccess(op, resp.body)
      /\ ~ParsesVec(resp.body, "APIError") )
    => ( /\ pc = "done"
         /\ result.kind = "Err"
         /\ result.msg = UNDEFINED_API_ERROR )

====
